---- MODULE Spec2Model ----
(***************************************************************************)
(* State machine of the smart-stream WebSocket client                      *)
(* (smartstream/socket.go): the reconnect controller ConnectWithContext,   *)
(* the session tasks readMessage / startPing / checkIdleConnection, the    *)
(* subscription registry subsMap and the configuration setters; and of the  *)
(* frame parser (smartstream/internal/parser/parser.go) over byte slices   *)
(* with Go's index and slice bounds.                                       *)
(*                                                                         *)
(* time.Duration is a signed 64-bit count of nanoseconds.  It is modelled  *)
(* as its two's complement image: a tuple of 8 bytes, least significant    *)
(* first, so that the wrap-around of the backoff product is the code's.    *)
(***************************************************************************)
EXTENDS Integers, Sequences, FiniteSets, TLC

\* ------------------------------------------------------------- bounds
\* Largest reconnectAttempt the controller model counts up to.
MaxAttempt == 3
\* Largest number of sockets one run may open.
MaxSock == 3
\* Largest total number of instruments held by the registry.
MaxRegLen == 2
\* Largest attempt count the backoff computation is applied to.
MaxPow == 70
\* Largest number of buy entries placed freely among the ten depth entries.
MaxBuy == 3
\* Longest instrument slice handed to createSubsRequest directly.
MaxReqLen == 3

\* ------------------------------------------------ program constants
defaultReconnectMaxAttempts == 300
\* Durations in milliseconds, as the source writes them (k * time.Millisecond).
reconnectMinDelayMs == 5000
defaultReconnectMaxDelayMs == 60000
\* time.Second and time.Millisecond in nanoseconds.
SecondNs == 1000000000
MillisecondNs == 1000000
\* pingPeriod*2, sessionCheckPeriod and idleTimeout in units of 5 seconds.
GraceTicks == 4
CheckTicks == 1
IdleTicks == 3
\* model.LTP, model.QUOTE, model.SNAPQUOTE
LTP == 1
QUOTE == 2
SNAPQUOTE == 3
\* model.NSECM, model.NSEFO
NSECM == 1
NSEFO == 2
\* SubscriptionRequest.Action written by createSubsRequest
SubsAction == 1

\* ------------------------------------------- 64-bit integer arithmetic
Pow256(i) == CASE i = 0 -> 1 [] i = 1 -> 256 [] i = 2 -> 65536 [] OTHER -> 16777216

\* The w-byte little-endian image of a natural number below 2^31.
Bytes(x, w) == [i \in 1..w |-> IF i <= 4 THEN (x \div Pow256(i - 1)) % 256 ELSE 0]

\* 2^n as a w-byte number (n < 8*w).
Pow2Bytes(n, w) == [i \in 1..w |-> IF i = (n \div 8) + 1 THEN 2 ^ (n % 8) ELSE 0]

RECURSIVE MulCol(_, _, _, _)
\* Sum of a[i] * b[k-i+1] for i in 1..m : column k of the schoolbook product.
MulCol(a, b, k, m) == IF m = 0 THEN 0 ELSE a[m] * b[k - m + 1] + MulCol(a, b, k, m - 1)

RECURSIVE MulCarry(_, _, _)
MulCarry(a, b, k) == IF k = 1 THEN 0 ELSE (MulCol(a, b, k - 1, k - 1) + MulCarry(a, b, k - 1)) \div 256

\* a * b modulo 256^w : Go's wrapping integer multiplication for w = 8.
MulBytes(a, b, w) == [k \in 1..w |-> (MulCol(a, b, k, k) + MulCarry(a, b, k)) % 256]

Mul64(a, b) == MulBytes(a, b, 8)

I64(x) == Bytes(x, 8)

Zero64 == I64(0)

MinInt64 == [i \in 1..8 |-> IF i = 8 THEN 128 ELSE 0]

MaxInt64 == [i \in 1..8 |-> IF i = 8 THEN 127 ELSE 255]

IsNeg64(a) == a[8] >= 128

\* Unsigned a > b on w-byte numbers.
UGt(a, b, w) == \E i \in 1..w : a[i] > b[i] /\ \A j \in (i + 1)..w : a[j] = b[j]

\* Signed a > b on int64.
Gt64(a, b) == IF IsNeg64(a) # IsNeg64(b) THEN IsNeg64(b) ELSE UGt(a, b, 8)

LeZero64(a) == IsNeg64(a) \/ a = Zero64

\* k * time.Millisecond
Millis(k) == Mul64(I64(k), I64(MillisecondNs))

reconnectMinDelay == Millis(reconnectMinDelayMs)

defaultReconnectMaxDelay == Millis(defaultReconnectMaxDelayMs)

\* time.Duration(math.Pow(2, float64(n))) : the float-to-int64 conversion.
\* 2^n is exact in float64; from n = 63 on it is not representable in int64
\* and Go leaves the result to the implementation: amd64 yields the minimum
\* int64, arm64 saturates to the maximum.
DurationOfPow2(n) == IF n <= 62 THEN {Pow2Bytes(n, 8)} ELSE {MinInt64, MaxInt64}

\* The delays line 197-200 can compute for attempt n and the stored maximum.
NextDelays(n, maxDelay) ==
    { IF Gt64(d, maxDelay) \/ LeZero64(d) THEN maxDelay ELSE d :
        d \in { Mul64(p, I64(SecondNs)) : p \in DurationOfPow2(n) } }

\* ------------------------------------------------------- frame parser
\* A byte slice m: data holds the cap(m) bytes of its backing array, len is
\* len(m).  m[i] panics unless i < len(m); m[a:b] panics unless b <= cap(m).
Cap(m) == Len(m.data)

\* m[a:]: the slice that starts a bytes further into the same array.
SliceFrom(m, a) == [data |-> SubSeq(m.data, a + 1, Len(m.data)), len |-> m.len - a]

\* The outcome of a call that panicked (index or slice bounds out of range,
\* call of a nil func).
Panic == [panic |-> TRUE]

\* A result that has not been produced.
Unset == [unset |-> TRUE]

\* binary.LittleEndian.Uint16(m[a:a+2])
Uint16(m, a) == m.data[a + 1] + 256 * m.data[a + 2]

\* binary.LittleEndian.Uint64(m[a:a+8]): the uint64 as four 16-bit limbs,
\* most significant first.
Uint64(m, a) == [k \in 1..4 |-> m.data[a + 9 - 2 * k] + 256 * m.data[a + 10 - 2 * k]]

\* math.Float64frombits(u): the float64 with bit pattern u.
Float64frombits(u) == [bits |-> u]

\* The loop of getToken, lines 94-99, from index i on: tokenEnd after the
\* loop, or -1 when m[i] is out of range.
RECURSIVE TokenLoop(_, _, _)
TokenLoop(m, i, tokenEnd) ==
    IF i >= 27 THEN tokenEnd
    ELSE IF i >= m.len THEN 0 - 1
    ELSE IF m.data[i + 1] = 0 THEN tokenEnd + 1
    ELSE TokenLoop(m, i + 1, tokenEnd + 1)

\* getToken(msg): lines 90-101.
getToken(m) ==
    IF m.len < 2 THEN Panic
    ELSE LET tokenEnd == TokenLoop(m, 2, 0)
         IN  IF tokenEnd < 0 \/ tokenEnd + 1 > Cap(m) THEN Panic
             ELSE [ExchangeType |-> m.data[2], Token |-> SubSeq(m.data, 3, tokenEnd + 1)]

\* ParseLTP(msg): lines 9-18.
ParseLTP(m) ==
    IF Cap(m) < 51 THEN Panic
    ELSE IF getToken(m) = Panic THEN Panic
    ELSE [TokenInfo |-> getToken(m),
          SequenceNumber |-> Uint64(m, 27),
          ExchangeFeedTimeEpochMillis |-> Uint64(m, 35),
          LastTradedPrice |-> Uint64(m, 43)]

\* ParseQuote(msg): lines 20-37.
ParseQuote(m) ==
    LET ltpInfo == ParseLTP(m)
    IN  IF ltpInfo = Panic \/ Cap(m) < 123 THEN Panic
        ELSE [TokenInfo |-> ltpInfo.TokenInfo,
              SequenceNumber |-> ltpInfo.SequenceNumber,
              ExchangeFeedTimeEpochMillis |-> ltpInfo.ExchangeFeedTimeEpochMillis,
              LastTradedPrice |-> ltpInfo.LastTradedPrice,
              LastTradedQty |-> Uint64(m, 51),
              AvgTradedPrice |-> Uint64(m, 59),
              VolumeTradedToday |-> Uint64(m, 67),
              TotalBuyQty |-> Float64frombits(Uint64(m, 75)),
              TotalSellQty |-> Float64frombits(Uint64(m, 83)),
              OpenPrice |-> Uint64(m, 91),
              HighPrice |-> Uint64(m, 99),
              LowPrice |-> Uint64(m, 107),
              ClosePrice |-> Uint64(m, 115)]

\* The SmartApiBBSInfo the loop of getBestBuySellData builds at offset i.
BBSInfo(m, i) ==
    [Flag |-> Uint16(m, i),
     Quantity |-> Uint64(m, i + 2),
     Price |-> Uint64(m, i + 10),
     NumberOfOrders |-> Uint16(m, i + 18)]

\* A depth loop that tests only the low byte of the flag.
RECURSIVE BestLoop_LowByte(_, _, _, _)
BestLoop_LowByte(m, i, bestFiveBuy, bestFiveSell) ==
    IF i >= 200 THEN [buy |-> bestFiveBuy, sell |-> bestFiveSell]
    ELSE IF BBSInfo(m, i).Flag % 256 = 1
           THEN BestLoop_LowByte(m, i + 20, Append(bestFiveBuy, BBSInfo(m, i)), bestFiveSell)
           ELSE BestLoop_LowByte(m, i + 20, bestFiveBuy, Append(bestFiveSell, BBSInfo(m, i)))

\* getBestBuySellData(msg): lines 70-88, the loop from offset i on.
RECURSIVE BestLoop(_, _, _, _)
BestLoop(m, i, bestFiveBuy, bestFiveSell) ==
    IF i >= 200 THEN [buy |-> bestFiveBuy, sell |-> bestFiveSell]
    ELSE IF BBSInfo(m, i).Flag = 1
           THEN BestLoop(m, i + 20, Append(bestFiveBuy, BBSInfo(m, i)), bestFiveSell)
           ELSE BestLoop(m, i + 20, bestFiveBuy, Append(bestFiveSell, BBSInfo(m, i)))

getBestBuySellData(m) == IF Cap(m) < 200 THEN Panic ELSE BestLoop(m, 0, <<>>, <<>>)

\* The model.SnapQuote of lines 42-65: the fields of quote, then those read
\* from offsets 123 on.
SnapQuoteFrom(m, quote) ==
    LET best == getBestBuySellData(SliceFrom(m, 147))
    IN  [TokenInfo |-> quote.TokenInfo,
         SequenceNumber |-> quote.SequenceNumber,
         ExchangeFeedTimeEpochMillis |-> quote.ExchangeFeedTimeEpochMillis,
         LastTradedPrice |-> quote.LastTradedPrice,
         LastTradedQty |-> quote.LastTradedQty,
         AvgTradedPrice |-> quote.AvgTradedPrice,
         VolumeTradedToday |-> quote.VolumeTradedToday,
         TotalBuyQty |-> quote.TotalBuyQty,
         TotalSellQty |-> quote.TotalSellQty,
         OpenPrice |-> quote.OpenPrice,
         HighPrice |-> quote.HighPrice,
         LowPrice |-> quote.LowPrice,
         ClosePrice |-> quote.ClosePrice,
         LastTradedTimestamp |-> Uint64(m, 123),
         OpenInterest |-> Uint64(m, 131),
         OpenInterestChangePerc |-> Float64frombits(Uint64(m, 139)),
         BestFiveBuy |-> best.buy,
         BestFiveSell |-> best.sell,
         UpperCircuit |-> Uint64(m, 347),
         LowerCircuit |-> Uint64(m, 355),
         YearlyHighPrice |-> Uint64(m, 363),
         YearlyLowPrice |-> Uint64(m, 371)]

\* A snapshot parser that copies the last traded price into the last traded
\* quantity.
ParseSnapquote_PriceAsQty(m) ==
    LET quote == ParseQuote(m)
    IN  IF quote = Panic \/ Cap(m) < 379 THEN Panic
        ELSE SnapQuoteFrom(m, [quote EXCEPT !.LastTradedQty = quote.LastTradedPrice])

\* ParseSnapquote(msg): lines 39-68.
ParseSnapquote(m) ==
    LET quote == ParseQuote(m)
    IN  IF quote = Panic \/ Cap(m) < 379 THEN Panic
        ELSE SnapQuoteFrom(m, quote)

\* ------------------------------------------------------------ inputs
\* model.TokenInfo values handed to Subscribe.
TokenInfos == { [ExchangeType |-> NSECM, Token |-> "A"], [ExchangeType |-> NSEFO, Token |-> "B"] }

\* Subscription modes handed to Subscribe.
SubsModes == {LTP, QUOTE}

\* Instrument slices handed to Subscribe: empty, single, repeated, both orders.
TokenSeqs ==
    LET A == [ExchangeType |-> NSECM, Token |-> "A"]
        B == [ExchangeType |-> NSEFO, Token |-> "B"]
    IN  { <<>>, <<A>>, <<B>>, <<A, B>>, <<B, A>>, <<A, A>> }

\* Modes and instrument slices handed to createSubsRequest directly: every
\* slice of up to MaxReqLen instruments, two of them on the same exchange.
ReqModes == {LTP, QUOTE, SNAPQUOTE}

ReqSeqs ==
    LET T == { [ExchangeType |-> NSECM, Token |-> "A"], [ExchangeType |-> NSEFO, Token |-> "B"],
               [ExchangeType |-> NSECM, Token |-> "C"] }
    IN  UNION { [1..n -> T] : n \in 0..MaxReqLen }

\* The one call the controller runs are given: Subscribe(QUOTE, [A]);
\* SpecSubs hands Subscribe every mode and slice above.
CoreModes == {QUOTE}

CoreSeqs == { << [ExchangeType |-> NSECM, Token |-> "A"] >> }

\* Durations (ms) handed to SetReconnectMaxDelay.
DelayValsMs == {0, 1000, 5000, 10000}

\* Values handed to SetReconnectMaxRetries.
RetryVals == {1}

\* Frame lengths of the three modes: the last offset each parser reads.
LenLTP == 51

LenQuote == 123

LenSnapquote == 379

\* The filler byte at offset k of a test frame: never NUL, and different
\* from its neighbours so that a shifted or reordered read shows.
Fill(seed, k) == ((seed + 7 * k) % 255) + 1

\* The ten depth flags of the frames whose token field varies.
DefaultFlags == << 1, 1, 1, 1, 1, 0, 0, 0, 0, 0 >>

\* c bytes of a frame: mode byte, exchange byte, a token field whose first
\* NUL is at offset nul (27: no NUL) and which is NUL-padded behind it when
\* pad holds, the depth flags fl, and filler everywhere else.
FrameData(c, mode, exch, nul, pad, fl, seed) ==
    [k \in 1..c |->
        LET o == k - 1
            j == ((o - 147) \div 20) + 1
        IN  IF o = 0 THEN mode
            ELSE IF o = 1 THEN exch
            ELSE IF o = nul \/ (pad /\ o > nul /\ o < 27) THEN 0
            ELSE IF o >= 147 /\ o < 347 /\ (o - 147) % 20 = 0 THEN fl[j] % 256
            ELSE IF o >= 147 /\ o < 347 /\ (o - 147) % 20 = 1 THEN fl[j] \div 256
            ELSE Fill(seed, o)]

\* Offsets of the first NUL of the token field in the test frames: the
\* first byte, the second, the last, and none.
NulOffsets == {2, 3, 26, 27}

\* Depth flag sequences: at most MaxBuy buy entries at any positions, the
\* other flags taken from 0, 2 and 257; and five buys followed by five sells.
FlagSeqs ==
    { [j \in 1..10 |-> IF j \in S THEN 1
                       ELSE IF j % 3 = 0 THEN 257 ELSE IF j % 3 = 1 THEN 0 ELSE 2] :
        S \in { T \in SUBSET (1..10) : Cardinality(T) <= MaxBuy } }
    \cup { DefaultFlags }

\* Full-length buffers handed to the parsers.
Buffers ==
    { [mType |-> "binary", len |-> n,
       data |-> FrameData(n, IF n = LenLTP THEN LTP ELSE IF n = LenQuote THEN QUOTE ELSE SNAPQUOTE,
                          e, nul, pad, DefaultFlags, seed)] :
        n \in {LenLTP, LenQuote, LenSnapquote}, e \in {NSECM, NSEFO}, nul \in NulOffsets,
        pad \in BOOLEAN, seed \in {0, 1} }
    \cup
    { [mType |-> "binary", len |-> LenSnapquote,
       data |-> FrameData(LenSnapquote, SNAPQUOTE, NSECM, 3, TRUE, fl, 0)] : fl \in FlagSeqs }

\* Frames ReadMessage returns to the read task: one full frame per mode, a
\* frame with an unknown mode byte, a text frame, an empty binary frame, and
\* mode-1 frames one byte short, in an array of their own length and in a
\* larger one (the capacity of the returned slice is the library's choice).
ReadFrames ==
    { [mType |-> "binary", len |-> LenLTP,
       data |-> FrameData(LenLTP, LTP, NSECM, 4, TRUE, DefaultFlags, 0)],
      [mType |-> "binary", len |-> LenQuote,
       data |-> FrameData(LenQuote, QUOTE, NSECM, 4, TRUE, DefaultFlags, 0)],
      [mType |-> "binary", len |-> LenSnapquote,
       data |-> FrameData(LenSnapquote, SNAPQUOTE, NSECM, 4, TRUE, DefaultFlags, 0)],
      [mType |-> "binary", len |-> LenLTP,
       data |-> FrameData(LenLTP, 4, NSECM, 4, TRUE, DefaultFlags, 0)],
      [mType |-> "text", len |-> 3, data |-> << 1, 2, 3 >>],
      [mType |-> "binary", len |-> 0, data |-> <<>>],
      [mType |-> "binary", len |-> LenLTP - 1,
       data |-> FrameData(LenLTP - 1, LTP, NSECM, 4, TRUE, DefaultFlags, 0)],
      [mType |-> "binary", len |-> LenLTP - 1,
       data |-> [k \in 1..LenSnapquote |->
                   IF k < LenLTP THEN FrameData(LenLTP - 1, LTP, NSECM, 4, TRUE, DefaultFlags, 0)[k]
                   ELSE 0]] }

\* The fields of ws.callbacks the read task calls.
FrameCallbacks == {"onLTP", "onQuote", "onSnapquote", "onText"}

\* No frame was read yet.
NoFrame == [mType |-> "none", len |-> 0, data |-> <<>>]

\* What became of a frame: to names the callback that received it ("log":
\* the mode was not recognized, "dropped": its callback is nil, "panic": the
\* goroutine panicked), the other fields hold the value passed.
Outcome(to) == [to |-> to, ltp |-> Unset, quote |-> Unset, snap |-> Unset, text |-> Unset]

\* ------------------------------------------------------------- state
VARIABLES
    autoReconnect,        \* ws.autoReconnect
    reconnectMaxRetries,  \* ws.reconnectMaxRetries
    reconnectMaxDelay,    \* ws.reconnectMaxDelay (int64 image)
    reconnectAttempt,     \* ws.reconnectAttempt
    subsMap,              \* ws.subsMap : mode -> sequence of TokenInfo
    Conn,                 \* ws.Conn : 0 is nil, otherwise the socket's number
    openSocks,            \* sockets dialled and not yet Close()d
    nSock,                \* sockets dialled so far
    ctxDone,              \* the context of ConnectWithContext is cancelled
    subroutineCancel,     \* ws.subroutineCancel # nil
    subDone,              \* ws.subroutineContext is cancelled
    pc,                   \* position of ConnectWithContext
    retVal,               \* what ConnectWithContext returned
    nextDelay,            \* local nextDelay of the current iteration
    readTask,             \* readMessage goroutine of the session
    watchdog,             \* checkIdleConnection goroutine of the session
    wdTimer,              \* 5s-ticks until the watchdog's next check
    sincePong,            \* 5s-ticks since ws.lastPongTime, saturating above idleTimeout
    nPing,                \* live startPing goroutines
    iterLog,              \* callbacks and steps of the current controller iteration
    replayOut,            \* requests written by the resubscribe that just returned
    subscribeCall,        \* last Subscribe call: arguments and returned error
    setDelayCall,         \* last SetReconnectMaxDelay call: argument and returned error
    stopCalled,           \* Stop() was called by the user while the controller ran
    callbacks,            \* the fields of ws.callbacks that are not nil
    msg,                  \* the frame ReadMessage returned last, or the buffer under parse
    parsed,               \* what became of msg: the callback it reached and the value passed
    pingWriting,          \* startPing goroutines inside Conn.WriteMessage
    subsRequest,          \* last createSubsRequest call: arguments and the request built
    sessAge               \* 5s-ticks since the session's tasks were started, saturating

vars == << autoReconnect, reconnectMaxRetries, reconnectMaxDelay, reconnectAttempt,
           subsMap, Conn, openSocks, nSock, ctxDone, subroutineCancel, subDone, pc,
           retVal, nextDelay, readTask, watchdog, wdTimer, sincePong, nPing, iterLog,
           replayOut, subscribeCall, setDelayCall, stopCalled, callbacks, msg, parsed,
           pingWriting, subsRequest, sessAge >>

frameVars == << callbacks, msg, parsed, pingWriting, subsRequest >>

coreVars == << autoReconnect, reconnectMaxRetries, reconnectMaxDelay, reconnectAttempt,
               subsMap, Conn, openSocks, nSock, ctxDone, subroutineCancel, subDone, pc,
               retVal, nextDelay, readTask, watchdog, wdTimer, sincePong, nPing, iterLog,
               replayOut, subscribeCall, setDelayCall, stopCalled >>

configVars == << autoReconnect, reconnectMaxRetries, reconnectMaxDelay, setDelayCall >>

sockVars == << Conn, openSocks, nSock >>

taskVars == << readTask, watchdog, wdTimer, nPing >>

\* One entry of iterLog: ev names the callback or step, a is its integer
\* argument (attempt count, or socket number with 0 for none), d its delay.
\*   reconnectFailed(a)  onReconnectFailed(attempt)
\*   reconnect(a, d)     onReconnect(attempt, nextDelay)
\*   sleep(d)            time.Sleep(nextDelay) returned
\*   closePrev(a)        the previous socket a was closed
\*   dial(a)             createConnection opened socket a
\*   dialFailed          createConnection returned an error
\*   onError(a)          onError(err): a = 0 the dial error, else a read error on socket a
\*   connected(a)        the user's connected callback ran with socket a installed
\*   replay(a)           resubscribe() returned: a = 0 nil, a = 1 an error
Ev(e, a, d) == [ev |-> e, a |-> a, d |-> d]

\* New(): the state after construction.
New ==
    /\ autoReconnect = TRUE
    /\ reconnectMaxRetries = defaultReconnectMaxAttempts
    /\ reconnectMaxDelay = defaultReconnectMaxDelay
    /\ subsMap = <<>>
    /\ Conn = 0
    /\ openSocks = {}
    /\ nSock = 0
    /\ ctxDone = FALSE
    /\ subroutineCancel = FALSE
    /\ subDone = FALSE
    /\ pc = "idle"
    /\ retVal = "none"
    /\ nextDelay = Zero64
    /\ readTask = "none"
    /\ watchdog = "none"
    /\ wdTimer = 0
    /\ sincePong = IdleTicks + 1
    /\ nPing = 0
    /\ iterLog = <<>>
    /\ replayOut = <<>>
    /\ subscribeCall = [mode |-> 0, toks |-> <<>>, err |-> "none"]
    /\ setDelayCall = [val |-> 0, err |-> "none"]
    /\ stopCalled = FALSE
    /\ callbacks = {}
    /\ parsed = Outcome("none")
    /\ pingWriting = 0
    /\ subsRequest = [mode |-> 0, toks |-> <<>>, req |-> Unset]
    /\ sessAge = 0

Init == New /\ reconnectAttempt = 0 /\ msg = NoFrame

\* --------------------------------------------------- configuration
\* The setters are called at setup time, before Connect().
\* SetAutoReconnect(val)
SetAutoReconnect(val) ==
    /\ pc = "idle"
    /\ autoReconnect' = val
    /\ UNCHANGED << reconnectMaxRetries, reconnectMaxDelay, setDelayCall, reconnectAttempt,
                    subsMap, sockVars, ctxDone, subroutineCancel, subDone, pc, retVal,
                    nextDelay, taskVars, sincePong, iterLog, replayOut, subscribeCall,
                    stopCalled >>
    /\ UNCHANGED << frameVars, sessAge >>

\* SetReconnectMaxRetries(val)
SetReconnectMaxRetries(val) ==
    /\ pc = "idle"
    /\ reconnectMaxRetries' = val
    /\ UNCHANGED << autoReconnect, reconnectMaxDelay, setDelayCall, reconnectAttempt,
                    subsMap, sockVars, ctxDone, subroutineCancel, subDone, pc, retVal,
                    nextDelay, taskVars, sincePong, iterLog, replayOut, subscribeCall,
                    stopCalled >>
    /\ UNCHANGED << frameVars, sessAge >>

\* SetReconnectMaxDelay(val), val in milliseconds: line 117 returns the error
\* when val > reconnectMinDelay and stores val otherwise.
SetReconnectMaxDelay(val) ==
    /\ pc = "idle"
    /\ IF Gt64(Millis(val), reconnectMinDelay)
         THEN /\ setDelayCall' = [val |-> val, err |-> "error"]
              /\ UNCHANGED reconnectMaxDelay
         ELSE /\ reconnectMaxDelay' = Millis(val)
              /\ setDelayCall' = [val |-> val, err |-> "nil"]
    /\ UNCHANGED << autoReconnect, reconnectMaxRetries, reconnectAttempt,
                    subsMap, sockVars, ctxDone, subroutineCancel, subDone, pc, retVal,
                    nextDelay, taskVars, sincePong, iterLog, replayOut, subscribeCall,
                    stopCalled >>
    /\ UNCHANGED << frameVars, sessAge >>

\* SetOnLTP, SetOnQuote, SetOnSnapquote, or the assignment of callbacks.onText
\* (which has no setter): a callback is installed at setup time.
SetCallback(cb) ==
    /\ pc = "idle"
    /\ cb \notin callbacks
    /\ callbacks' = callbacks \cup {cb}
    /\ UNCHANGED << coreVars, msg, parsed, pingWriting, subsRequest, sessAge >>

\* ------------------------------------------------ subscription requests
\* A grouping that lists each token of an exchange once.
TokensOf_Distinct(toks, e) ==
    LET sel == SelectSeq(toks, LAMBDA t : t.ExchangeType = e)
        idx == { i \in 1..Len(sel) : \A j \in 1..(i - 1) : sel[j].Token # sel[i].Token }
        RECURSIVE Pick(_)
        Pick(S) == IF S = {} THEN <<>>
                   ELSE LET i == CHOOSE x \in S : \A y \in S : x <= y
                        IN  << sel[i].Token >> \o Pick(S \ {i})
    IN  Pick(idx)

\* The tokens of exchange e among toks, in input order.
TokensOf(toks, e) ==
    LET sel == SelectSeq(toks, LAMBDA t : t.ExchangeType = e)
    IN  [i \in 1..Len(sel) |-> sel[i].Token]

\* All orders in which a Go map with key set S may be iterated.
MapOrders(S) ==
    { p \in [1..Cardinality(S) -> S] : \A i, j \in 1..Cardinality(S) : i # j => p[i] # p[j] }

\* createSubsRequest(mode, tokenIds): the requests it may build; the order of
\* the token groups is the iteration order of exchangeTokenMap.
createSubsRequest(mode, toks) ==
    { [Action |-> SubsAction, Mode |-> mode,
       TokenList |-> [i \in 1..Len(p) |->
                        [ExchangeType |-> p[i], Tokens |-> TokensOf(toks, p[i])]]] :
        p \in MapOrders({ toks[i].ExchangeType : i \in 1..Len(toks) }) }

\* createSubsRequest(mode, tokenIds) called on its own (lines 438-462).
CallCreateSubsRequest(mode, toks) ==
    /\ \E r \in createSubsRequest(mode, toks) :
         subsRequest' = [mode |-> mode, toks |-> toks, req |-> r]
    /\ UNCHANGED << coreVars, callbacks, msg, parsed, pingWriting, sessAge >>

\* Total number of instruments the registry holds.
RegLen(map) ==
    LET RECURSIVE Sum(_)
        Sum(S) == IF S = {} THEN 0
                  ELSE LET m == CHOOSE x \in S : TRUE IN Len(map[m]) + Sum(S \ {m})
    IN  Sum(DOMAIN map)

\* A Subscribe that stores the new slice in place of the mode's old one.
AppendSubs_Replace(map, mode, toks, err) ==
    IF err = "nil"
      THEN [m \in (DOMAIN map) \cup {mode} |-> IF m = mode THEN toks ELSE map[m]]
      ELSE map

\* A Subscribe that records the instruments whatever the send returned.
AppendSubs_Always(map, mode, toks, err) ==
    IF mode \in DOMAIN map
      THEN [map EXCEPT ![mode] = @ \o toks]
      ELSE [m \in (DOMAIN map) \cup {mode} |-> IF m = mode THEN toks ELSE map[m]]

\* Lines 286-291: the registry after Subscribe's send returned err.
AppendSubs(map, mode, toks, err) ==
    IF err = "nil"
      THEN IF mode \in DOMAIN map
             THEN [map EXCEPT ![mode] = @ \o toks]
             ELSE [m \in (DOMAIN map) \cup {mode} |-> IF m = mode THEN toks ELSE map[m]]
      ELSE map

\* Results of Conn.WriteMessage: a closed socket refuses the write, an open
\* one may still fail on the network.
WriteResults == IF Conn \in openSocks THEN {"nil", "error"} ELSE {"error"}

\* Subscribe(mode, tokenIds) on a dialled connection (on a nil ws.Conn the
\* write is a nil dereference, not an error return).
Subscribe(mode, toks) ==
    /\ Conn # 0
    /\ pc # "crashed"
    /\ RegLen(subsMap) + Len(toks) <= MaxRegLen
    /\ \E err \in WriteResults :
         /\ subscribeCall' = [mode |-> mode, toks |-> toks, err |-> err]
         /\ subsMap' = AppendSubs(subsMap, mode, toks, err)
    /\ UNCHANGED << configVars, reconnectAttempt, sockVars, ctxDone, subroutineCancel,
                    subDone, pc, retVal, nextDelay, taskVars, sincePong, iterLog,
                    replayOut, stopCalled >>
    /\ UNCHANGED << frameVars, sessAge >>

\* A resubscribe that returns from inside the loop after the first mode.
resubscribe_FirstOnly(map, connOpen) ==
    LET n == IF DOMAIN map = {} THEN 0 ELSE 1
    IN  { [out |-> s, err |-> IF Len(s) < n THEN "error" ELSE "nil"] :
            s \in UNION { { << r >> : r \in UNION { createSubsRequest(m, map[m]) : m \in DOMAIN map } },
                          { <<>> } } }

\* resubscribe(): the modes of subsMap are visited in map order, one request
\* per mode, until a write fails.  Each outcome is the requests written and
\* the error returned.
resubscribe(map, connOpen) ==
    LET n == Cardinality(DOMAIN map)
        reqs == UNION { createSubsRequest(m, map[m]) : m \in DOMAIN map }
    IN  { [out |-> s, err |-> IF Len(s) < n THEN "error" ELSE "nil"] :
            s \in UNION { { t \in [1..k -> reqs] :
                              \E p \in MapOrders(DOMAIN map) :
                                 \A i \in 1..k : t[i] \in createSubsRequest(p[i], map[p[i]]) } :
                          k \in (IF connOpen THEN 0..n ELSE {0}) } }

\* ------------------------------------------------------- controller
\* closeRoutines(): the sockets open after it.
ClosedByRoutines == IF subroutineCancel /\ Conn # 0 THEN openSocks \ {Conn} ELSE openSocks

\* closeRoutines(): lines 319-326.
closeRoutines ==
    /\ subDone' = (subroutineCancel \/ subDone)
    /\ openSocks' = ClosedByRoutines

\* Connect(): ConnectWithContext installs ws.cancel and enters the loop.
Connect ==
    /\ pc = "idle"
    /\ pc' = "loop"
    /\ UNCHANGED << configVars, reconnectAttempt, subsMap, sockVars, ctxDone,
                    subroutineCancel, subDone, retVal, nextDelay, taskVars, sincePong,
                    iterLog, replayOut, subscribeCall, stopCalled >>
    /\ UNCHANGED << frameVars, sessAge >>

\* return v from ConnectWithContext: the deferred Stop() runs.
Return(v) ==
    /\ pc' = "returned"
    /\ retVal' = v
    /\ closeRoutines
    /\ ctxDone' = TRUE

\* A max-retries check that already fires at the ceiling.
RetriesCheck_AtCeiling(attempt, maxRetries) ==
    IF attempt >= maxRetries THEN << Ev("reconnectFailed", attempt, <<>>) >> ELSE <<>>

\* The events lines 193-195 add at the start of an iteration.
RetriesCheck(attempt, maxRetries) ==
    IF attempt > maxRetries THEN << Ev("reconnectFailed", attempt, <<>>) >> ELSE <<>>

\* A controller that consults autoReconnect at the top of the loop and
\* returns an error when a retry is due with the flag off.
LoopTop_NoRetryWithoutAuto ==
    /\ pc = "loop"
    /\ IF ctxDone \/ (reconnectAttempt > 0 /\ ~autoReconnect)
         THEN /\ Return(IF ctxDone THEN "nil" ELSE "error")
              /\ UNCHANGED << iterLog, replayOut >>
         ELSE /\ iterLog' = RetriesCheck(reconnectAttempt, reconnectMaxRetries)
              /\ replayOut' = <<>>
              /\ pc' = IF reconnectAttempt > 0 THEN "backoff" ELSE "dial"
              /\ UNCHANGED << retVal, subDone, openSocks, ctxDone >>
    /\ UNCHANGED << configVars, reconnectAttempt, subsMap, Conn, nSock, subroutineCancel,
                    nextDelay, taskVars, sincePong, subscribeCall, stopCalled >>
    /\ UNCHANGED << frameVars, sessAge >>

\* A controller that gives up once the ceiling is exceeded.
LoopTop_StopAtCeiling ==
    /\ pc = "loop"
    /\ IF ctxDone \/ reconnectAttempt > reconnectMaxRetries
         THEN /\ Return("nil")
              /\ UNCHANGED << iterLog, replayOut >>
         ELSE /\ iterLog' = <<>>
              /\ replayOut' = <<>>
              /\ pc' = IF reconnectAttempt > 0 THEN "backoff" ELSE "dial"
              /\ UNCHANGED << retVal, subDone, openSocks, ctxDone >>
    /\ UNCHANGED << configVars, reconnectAttempt, subsMap, Conn, nSock, subroutineCancel,
                    nextDelay, taskVars, sincePong, subscribeCall, stopCalled >>
    /\ UNCHANGED << frameVars, sessAge >>

\* Lines 189-195: the select at the top of the loop, then the max-retries check.
LoopTop ==
    /\ pc = "loop"
    /\ IF ctxDone
         THEN /\ Return("nil")
              /\ UNCHANGED << iterLog, replayOut >>
         ELSE /\ iterLog' = RetriesCheck(reconnectAttempt, reconnectMaxRetries)
              /\ replayOut' = <<>>
              /\ pc' = IF reconnectAttempt > 0 THEN "backoff" ELSE "dial"
              /\ UNCHANGED << retVal, subDone, openSocks, ctxDone >>
    /\ UNCHANGED << configVars, reconnectAttempt, subsMap, Conn, nSock, subroutineCancel,
                    nextDelay, taskVars, sincePong, subscribeCall, stopCalled >>
    /\ UNCHANGED << frameVars, sessAge >>

\* Lines 197-203: compute nextDelay, announce the reconnect.
Backoff ==
    /\ pc = "backoff"
    /\ \E d \in NextDelays(reconnectAttempt, reconnectMaxDelay) :
         /\ nextDelay' = d
         /\ iterLog' = Append(iterLog, Ev("reconnect", reconnectAttempt, d))
    /\ pc' = "sleep"
    /\ UNCHANGED << configVars, reconnectAttempt, subsMap, sockVars, ctxDone,
                    subroutineCancel, subDone, retVal, taskVars, sincePong, replayOut,
                    subscribeCall, stopCalled >>
    /\ UNCHANGED << frameVars, sessAge >>

\* A backoff that closes the previous socket before it sleeps.
SleepEvents_CloseFirst(conn, d) ==
    (IF conn # 0 THEN << Ev("closePrev", conn, <<>>) >> ELSE <<>>) \o << Ev("sleep", 0, d) >>

\* The events of lines 204-208: the sleep, then the close of the previous socket.
SleepEvents(conn, d) ==
    << Ev("sleep", 0, d) >> \o (IF conn # 0 THEN << Ev("closePrev", conn, <<>>) >> ELSE <<>>)

\* Lines 204-208: time.Sleep(nextDelay) returns, the previous socket is closed.
SleepDone ==
    /\ pc = "sleep"
    /\ iterLog' = iterLog \o SleepEvents(Conn, nextDelay)
    /\ openSocks' = openSocks \ {Conn}
    /\ pc' = "dial"
    /\ UNCHANGED << configVars, reconnectAttempt, subsMap, Conn, nSock, ctxDone,
                    subroutineCancel, subDone, retVal, nextDelay, taskVars, sincePong,
                    replayOut, subscribeCall, stopCalled >>
    /\ UNCHANGED << frameVars, sessAge >>

\* Lines 211, 339-358: createConnection succeeds and installs the new socket.
DialOk ==
    /\ pc = "dial"
    /\ nSock < MaxSock
    /\ nSock' = nSock + 1
    /\ Conn' = nSock + 1
    /\ openSocks' = openSocks \cup {nSock + 1}
    /\ iterLog' = Append(iterLog, Ev("dial", nSock + 1, <<>>))
    /\ pc' = "connected"
    /\ UNCHANGED << configVars, reconnectAttempt, subsMap, ctxDone, subroutineCancel,
                    subDone, retVal, nextDelay, taskVars, sincePong, replayOut,
                    subscribeCall, stopCalled >>
    /\ UNCHANGED << frameVars, sessAge >>

\* A failed dial that retries without counting the attempt.
DialFail_NoCount ==
    /\ pc = "dial"
    /\ iterLog' = iterLog \o << Ev("dialFailed", 0, <<>>), Ev("onError", 0, <<>>) >>
    /\ IF autoReconnect
         THEN /\ pc' = "loop"
              /\ UNCHANGED << reconnectAttempt, retVal, subDone, openSocks, ctxDone >>
         ELSE /\ Return("error")
              /\ UNCHANGED reconnectAttempt
    /\ UNCHANGED << configVars, subsMap, Conn, nSock, subroutineCancel, nextDelay,
                    taskVars, sincePong, replayOut, subscribeCall, stopCalled >>
    /\ UNCHANGED << frameVars, sessAge >>

\* Lines 211-220: createConnection fails.
DialFail ==
    /\ pc = "dial"
    /\ iterLog' = iterLog \o << Ev("dialFailed", 0, <<>>), Ev("onError", 0, <<>>) >>
    /\ IF autoReconnect
         THEN /\ reconnectAttempt < MaxAttempt
              /\ reconnectAttempt' = reconnectAttempt + 1
              /\ pc' = "loop"
              /\ UNCHANGED << retVal, subDone, openSocks, ctxDone >>
         ELSE /\ Return("error")
              /\ UNCHANGED reconnectAttempt
    /\ UNCHANGED << configVars, subsMap, Conn, nSock, subroutineCancel, nextDelay,
                    taskVars, sincePong, replayOut, subscribeCall, stopCalled >>
    /\ UNCHANGED << frameVars, sessAge >>

\* An onConnected() that clears the attempt counter whatever the replay returned.
OnConnected_ResetAlways ==
    /\ pc = "connected"
    /\ IF reconnectAttempt > 0
         THEN \E r \in resubscribe(subsMap, Conn \in openSocks) :
                /\ replayOut' = r.out
                /\ iterLog' = Append(iterLog, Ev("replay", IF r.err = "nil" THEN 0 ELSE 1, <<>>))
                /\ reconnectAttempt' = 0
         ELSE /\ iterLog' = Append(iterLog, Ev("connected", Conn, <<>>))
              /\ UNCHANGED << replayOut, reconnectAttempt >>
    /\ pc' = "spawn"
    /\ UNCHANGED << configVars, subsMap, sockVars, ctxDone, subroutineCancel, subDone,
                    retVal, nextDelay, taskVars, sincePong, subscribeCall, stopCalled >>
    /\ UNCHANGED << frameVars, sessAge >>

\* Lines 221, 253-266: onConnected() replays the registry when
\* reconnectAttempt > 0 and calls the user's connected callback otherwise.
OnConnected ==
    /\ pc = "connected"
    /\ IF reconnectAttempt > 0
         THEN \E r \in resubscribe(subsMap, Conn \in openSocks) :
                /\ replayOut' = r.out
                /\ iterLog' = Append(iterLog, Ev("replay", IF r.err = "nil" THEN 0 ELSE 1, <<>>))
                /\ reconnectAttempt' = IF r.err = "nil" THEN 0 ELSE reconnectAttempt
         ELSE /\ iterLog' = Append(iterLog, Ev("connected", Conn, <<>>))
              /\ UNCHANGED << replayOut, reconnectAttempt >>
    /\ pc' = "spawn"
    /\ UNCHANGED << configVars, subsMap, sockVars, ctxDone, subroutineCancel, subDone,
                    retVal, nextDelay, taskVars, sincePong, subscribeCall, stopCalled >>
    /\ UNCHANGED << frameVars, sessAge >>

\* Lines 222-232: a fresh subroutine context, then the three goroutines.
Spawn ==
    /\ pc = "spawn"
    /\ subroutineCancel' = TRUE
    /\ subDone' = FALSE
    /\ nPing' = nPing + 1
    /\ replayOut' = <<>>
    /\ readTask' = "run"
    /\ watchdog' = "run"
    /\ wdTimer' = GraceTicks + CheckTicks
    /\ sessAge' = 0
    /\ pc' = "wait"
    /\ UNCHANGED << configVars, reconnectAttempt, subsMap, sockVars, ctxDone, retVal,
                    nextDelay, sincePong, iterLog, subscribeCall, stopCalled >>
    /\ UNCHANGED frameVars

\* Line 234: wg.Wait() returns once readMessage and checkIdleConnection are done.
WaitDone ==
    /\ pc = "wait"
    /\ readTask = "done"
    /\ watchdog = "done"
    /\ readTask' = "none"
    /\ watchdog' = "none"
    /\ pc' = "loop"
    /\ UNCHANGED << configVars, reconnectAttempt, subsMap, sockVars, ctxDone,
                    subroutineCancel, subDone, retVal, nextDelay, wdTimer, nPing,
                    sincePong, iterLog, replayOut, subscribeCall, stopCalled >>
    /\ UNCHANGED << frameVars, sessAge >>

\* The caller cancels the context it passed to ConnectWithContext: line 183
\* derives the controller's context from it.
Cancel ==
    /\ pc \notin {"idle", "returned", "crashed"}
    /\ ~ctxDone
    /\ ctxDone' = TRUE
    /\ UNCHANGED << configVars, reconnectAttempt, subsMap, sockVars, subroutineCancel,
                    subDone, pc, retVal, nextDelay, taskVars, sincePong, iterLog, replayOut,
                    subscribeCall, stopCalled >>
    /\ UNCHANGED << frameVars, sessAge >>

\* Stop() called by the user while ConnectWithContext runs: lines 312-317.
Stop ==
    /\ pc \notin {"idle", "returned", "crashed"}
    /\ closeRoutines
    /\ ctxDone' = TRUE
    /\ stopCalled' = TRUE
    /\ UNCHANGED << configVars, reconnectAttempt, subsMap, Conn, nSock, subroutineCancel,
                    pc, retVal, nextDelay, taskVars, sincePong, iterLog, replayOut,
                    subscribeCall >>
    /\ UNCHANGED << frameVars, sessAge >>

\* ------------------------------------------------------ session tasks
\* readMessage, line 366: the subroutine context is done.
ReadCancelled ==
    /\ readTask = "run"
    /\ subDone
    /\ readTask' = "done"
    /\ UNCHANGED << configVars, reconnectAttempt, subsMap, sockVars, ctxDone,
                    subroutineCancel, subDone, pc, retVal, nextDelay, watchdog, wdTimer,
                    nPing, sincePong, iterLog, replayOut, subscribeCall, stopCalled >>
    /\ UNCHANGED << frameVars, sessAge >>

\* readMessage, lines 369-373: ReadMessage fails (socket closed here, by the
\* peer or by the network); the error callback runs and the task returns.
ReadError ==
    /\ readTask = "run"
    /\ readTask' = "done"
    /\ iterLog' = Append(iterLog, Ev("onError", Conn, <<>>))
    /\ UNCHANGED << configVars, reconnectAttempt, subsMap, sockVars, ctxDone,
                    subroutineCancel, subDone, pc, retVal, nextDelay, watchdog, wdTimer,
                    nPing, sincePong, replayOut, subscribeCall, stopCalled >>
    /\ UNCHANGED << frameVars, sessAge >>

\* onPong, lines 328-331: a pong read on the open socket stamps lastPongTime.
OnPong ==
    /\ readTask = "run"
    /\ Conn \in openSocks
    /\ sincePong # 0
    /\ sincePong' = 0
    /\ UNCHANGED << configVars, reconnectAttempt, subsMap, sockVars, ctxDone,
                    subroutineCancel, subDone, pc, retVal, nextDelay, taskVars, iterLog,
                    replayOut, subscribeCall, stopCalled >>
    /\ UNCHANGED << frameVars, sessAge >>

\* startPing, line 407: the subroutine context is done.
PingCancelled ==
    /\ nPing > 0
    /\ subDone
    /\ nPing' = nPing - 1
    /\ UNCHANGED << configVars, reconnectAttempt, subsMap, sockVars, ctxDone,
                    subroutineCancel, subDone, pc, retVal, nextDelay, readTask, watchdog,
                    wdTimer, sincePong, iterLog, replayOut, subscribeCall, stopCalled >>
    /\ UNCHANGED << frameVars, sessAge >>

\* startPing, lines 409-413: the ping write fails and the task returns.
PingFail ==
    /\ nPing > 0
    /\ nPing' = nPing - 1
    /\ UNCHANGED << configVars, reconnectAttempt, subsMap, sockVars, ctxDone,
                    subroutineCancel, subDone, pc, retVal, nextDelay, readTask, watchdog,
                    wdTimer, sincePong, iterLog, replayOut, subscribeCall, stopCalled >>
    /\ UNCHANGED << frameVars, sessAge >>

\* startPing, lines 409-410: the ticker fires and a ping goroutine enters
\* Conn.WriteMessage.
PingWriteBegin ==
    /\ nPing - pingWriting > 0
    /\ Conn # 0
    /\ pingWriting' = pingWriting + 1
    /\ UNCHANGED << coreVars, callbacks, msg, parsed, subsRequest, sessAge >>

\* startPing, lines 410-413: the ping write returns; on an error the
\* goroutine returns.
PingWriteEnd ==
    /\ pingWriting > 0
    /\ pingWriting' = pingWriting - 1
    /\ \E err \in WriteResults : nPing' = IF err = "nil" THEN nPing ELSE nPing - 1
    /\ UNCHANGED << configVars, reconnectAttempt, subsMap, sockVars, ctxDone,
                    subroutineCancel, subDone, pc, retVal, nextDelay, readTask, watchdog,
                    wdTimer, sincePong, iterLog, replayOut, subscribeCall, stopCalled,
                    callbacks, msg, parsed, subsRequest, sessAge >>

\* Five seconds pass during a session.  Outside a session lastPongTime is
\* already older than idleTimeout: it is the zero time before the first pong,
\* and a session ends only through a watchdog check that found it stale.
Tick ==
    /\ watchdog = "run"
    /\ wdTimer > 0
    /\ sincePong' = IF sincePong <= IdleTicks THEN sincePong + 1 ELSE sincePong
    /\ wdTimer' = IF watchdog = "run" THEN wdTimer - 1 ELSE wdTimer
    /\ sessAge' = IF sessAge < GraceTicks + CheckTicks THEN sessAge + 1 ELSE sessAge
    /\ UNCHANGED << configVars, reconnectAttempt, subsMap, sockVars, ctxDone,
                    subroutineCancel, subDone, pc, retVal, nextDelay, readTask, watchdog,
                    nPing, iterLog, replayOut, subscribeCall, stopCalled >>
    /\ UNCHANGED frameVars

\* A watchdog that tears the session down without counting an attempt.
WatchdogCheck_NoCount ==
    /\ watchdog = "run"
    /\ wdTimer = 0
    /\ IF sincePong > IdleTicks
         THEN /\ closeRoutines
              /\ watchdog' = "done"
              /\ UNCHANGED << wdTimer, reconnectAttempt >>
         ELSE /\ wdTimer' = CheckTicks
              /\ UNCHANGED << subDone, openSocks, reconnectAttempt, watchdog >>
    /\ UNCHANGED << configVars, subsMap, Conn, nSock, ctxDone, subroutineCancel, pc,
                    retVal, nextDelay, readTask, nPing, sincePong, iterLog, replayOut,
                    subscribeCall, stopCalled >>
    /\ UNCHANGED << frameVars, sessAge >>

\* A watchdog that only cancels the session's tasks: it neither closes the
\* socket nor counts an attempt.
WatchdogCheck_CancelOnly ==
    /\ watchdog = "run"
    /\ wdTimer = 0
    /\ IF sincePong > IdleTicks
         THEN /\ subDone' = (subroutineCancel \/ subDone)
              /\ watchdog' = "done"
              /\ UNCHANGED << wdTimer, openSocks, reconnectAttempt >>
         ELSE /\ wdTimer' = CheckTicks
              /\ UNCHANGED << subDone, openSocks, reconnectAttempt, watchdog >>
    /\ UNCHANGED << configVars, subsMap, Conn, nSock, ctxDone, subroutineCancel, pc,
                    retVal, nextDelay, readTask, nPing, sincePong, iterLog, replayOut,
                    subscribeCall, stopCalled >>
    /\ UNCHANGED << frameVars, sessAge >>

\* A watchdog that already fires when the last pong is exactly idleTimeout old.
WatchdogCheck_AtThreshold ==
    /\ watchdog = "run"
    /\ wdTimer = 0
    /\ IF sincePong >= IdleTicks
         THEN /\ reconnectAttempt < MaxAttempt
              /\ closeRoutines
              /\ reconnectAttempt' = reconnectAttempt + 1
              /\ watchdog' = "done"
              /\ UNCHANGED wdTimer
         ELSE /\ wdTimer' = CheckTicks
              /\ UNCHANGED << subDone, openSocks, reconnectAttempt, watchdog >>
    /\ UNCHANGED << configVars, subsMap, Conn, nSock, ctxDone, subroutineCancel, pc,
                    retVal, nextDelay, readTask, nPing, sincePong, iterLog, replayOut,
                    subscribeCall, stopCalled >>
    /\ UNCHANGED << frameVars, sessAge >>

\* checkIdleConnection, lines 427-433: one ticker check.
WatchdogCheck ==
    /\ watchdog = "run"
    /\ wdTimer = 0
    /\ IF sincePong > IdleTicks
         THEN /\ reconnectAttempt < MaxAttempt
              /\ closeRoutines
              /\ reconnectAttempt' = reconnectAttempt + 1
              /\ watchdog' = "done"
              /\ UNCHANGED wdTimer
         ELSE /\ wdTimer' = CheckTicks
              /\ UNCHANGED << subDone, openSocks, reconnectAttempt, watchdog >>
    /\ UNCHANGED << configVars, subsMap, Conn, nSock, ctxDone, subroutineCancel, pc,
                    retVal, nextDelay, readTask, nPing, sincePong, iterLog, replayOut,
                    subscribeCall, stopCalled >>
    /\ UNCHANGED << frameVars, sessAge >>

\* model.SmartStreamSubsMode(msg[0]): the conversion of a byte to int8.
Int8(b) == IF b >= 128 THEN b - 256 ELSE b

\* readMessage, lines 376-395: what becomes of frame f when cbs are the
\* callbacks that are set.
Dispatch(f, cbs) ==
    IF f.mType = "binary"
      THEN IF f.len = 0 THEN Outcome("panic")
           ELSE IF Int8(f.data[1]) = LTP
             THEN IF ParseLTP(f) = Panic \/ "onLTP" \notin cbs THEN Outcome("panic")
                  ELSE [Outcome("onLTP") EXCEPT !.ltp = ParseLTP(f)]
           ELSE IF Int8(f.data[1]) = QUOTE
             THEN IF ParseQuote(f) = Panic \/ "onQuote" \notin cbs THEN Outcome("panic")
                  ELSE [Outcome("onQuote") EXCEPT !.quote = ParseQuote(f)]
           ELSE IF Int8(f.data[1]) = SNAPQUOTE
             THEN IF ParseSnapquote(f) = Panic \/ "onSnapquote" \notin cbs THEN Outcome("panic")
                  ELSE [Outcome("onSnapquote") EXCEPT !.snap = ParseSnapquote(f)]
           ELSE Outcome("log")
      ELSE IF "onText" \in cbs
             THEN [Outcome("onText") EXCEPT !.text = [bytes |-> SubSeq(f.data, 1, f.len)]]
             ELSE Outcome("dropped")

\* readMessage, lines 369-395: ReadMessage returns frame f and the task
\* dispatches it.  A panic in the goroutine ends the whole program.
ReadFrame(f) ==
    /\ readTask = "run"
    /\ Conn \in openSocks
    /\ msg' = f
    /\ parsed' = Dispatch(f, callbacks)
    /\ IF Dispatch(f, callbacks).to = "panic"
         THEN /\ pc' = "crashed"
              /\ readTask' = "panic"
              /\ watchdog' = "none"
              /\ nPing' = 0
              /\ pingWriting' = 0
         ELSE UNCHANGED << pc, readTask, watchdog, nPing, pingWriting >>
    /\ UNCHANGED << configVars, reconnectAttempt, subsMap, sockVars, ctxDone,
                    subroutineCancel, subDone, retVal, nextDelay, wdTimer, sincePong,
                    iterLog, replayOut, subscribeCall, stopCalled, callbacks, subsRequest,
                    sessAge >>

\* A caller of package parser applies ParseLTP to the buffer.
CallParseLTP ==
    /\ parsed.ltp = Unset
    /\ parsed' = [parsed EXCEPT !.to = "parser", !.ltp = ParseLTP(msg)]
    /\ UNCHANGED << coreVars, callbacks, msg, pingWriting, subsRequest, sessAge >>

\* A caller of package parser applies ParseQuote to the buffer.
CallParseQuote ==
    /\ parsed.quote = Unset
    /\ parsed' = [parsed EXCEPT !.to = "parser", !.quote = ParseQuote(msg)]
    /\ UNCHANGED << coreVars, callbacks, msg, pingWriting, subsRequest, sessAge >>

\* A caller of package parser applies ParseSnapquote to the buffer.
CallParseSnapquote ==
    /\ parsed.snap = Unset
    /\ parsed' = [parsed EXCEPT !.to = "parser", !.snap = ParseSnapquote(msg)]
    /\ UNCHANGED << coreVars, callbacks, msg, pingWriting, subsRequest, sessAge >>

\* ---------------------------------------------------- specifications
Next ==
    \/ \E v \in BOOLEAN : SetAutoReconnect(v)
    \/ \E v \in RetryVals : SetReconnectMaxRetries(v)
    \/ Connect
    \/ LoopTop
    \/ Backoff
    \/ SleepDone
    \/ DialOk
    \/ DialFail
    \/ OnConnected
    \/ Spawn
    \/ WaitDone
    \/ Stop
    \/ \E m \in CoreModes, t \in CoreSeqs : Subscribe(m, t)
    \/ ReadCancelled
    \/ ReadError
    \/ OnPong
    \/ PingCancelled
    \/ PingFail
    \/ Tick
    \/ WatchdogCheck

Spec == Init /\ [][Next]_vars

\* The backoff computation and the max-delay setter over their whole input
\* range: the run starts with any attempt count left by an earlier run.
InitDelay == New /\ reconnectAttempt \in 0..MaxPow /\ msg = NoFrame

NextDelay ==
    \/ \E v \in DelayValsMs : SetReconnectMaxDelay(v)
    \/ Connect
    \/ LoopTop
    \/ Backoff
    \/ SleepDone

SpecDelay == InitDelay /\ [][NextDelay]_vars

\* The registry under every Subscribe argument, in runs with the default
\* configuration that nobody stops.
NextSubs ==
    \/ Connect
    \/ LoopTop
    \/ Backoff
    \/ SleepDone
    \/ DialOk
    \/ OnConnected
    \/ Spawn
    \/ WaitDone
    \/ \E m \in SubsModes, t \in TokenSeqs : Subscribe(m, t)
    \/ ReadError
    \/ Tick
    \/ WatchdogCheck

SpecSubs == Init /\ [][NextSubs]_vars

\* The registry under every Subscribe argument in runs with the default
\* configuration that the user may stop.
NextReg ==
    \/ Connect
    \/ LoopTop
    \/ Backoff
    \/ SleepDone
    \/ DialOk
    \/ OnConnected
    \/ Spawn
    \/ WaitDone
    \/ Stop
    \/ \E m \in SubsModes, t \in TokenSeqs : Subscribe(m, t)
    \/ ReadError
    \/ Tick
    \/ WatchdogCheck

SpecReg == Init /\ [][NextReg]_vars

\* The parsers of package parser applied to full-length buffers.
InitParse == New /\ reconnectAttempt = 0 /\ msg \in Buffers

NextParse ==
    \/ CallParseLTP
    \/ CallParseQuote
    \/ CallParseSnapquote

SpecParse == InitParse /\ [][NextParse]_vars

\* createSubsRequest applied to every mode and instrument slice.
NextReq == \E m \in ReqModes, t \in ReqSeqs : CallCreateSubsRequest(m, t)

SpecReq == Init /\ [][NextReq]_vars

\* The read task of the first session under every choice of callbacks.
NextRead ==
    \/ \E cb \in FrameCallbacks : SetCallback(cb)
    \/ Connect
    \/ LoopTop
    \/ DialOk
    \/ OnConnected
    \/ Spawn
    \/ \E f \in ReadFrames : ReadFrame(f)
    \/ ReadError

SpecRead == Init /\ [][NextRead]_vars

\* The writers of the socket: ping writes that take time, Subscribe calls
\* and replays, in runs with the default configuration that nobody stops.
NextWrite ==
    \/ Connect
    \/ LoopTop
    \/ Backoff
    \/ SleepDone
    \/ DialOk
    \/ OnConnected
    \/ Spawn
    \/ WaitDone
    \/ \E m \in CoreModes, t \in CoreSeqs : Subscribe(m, t)
    \/ PingWriteBegin
    \/ PingWriteEnd
    \/ ReadError
    \/ Tick
    \/ WatchdogCheck

SpecWrite == Init /\ [][NextWrite]_vars

\* The controller and its tasks without Subscribe calls, with time passing
\* and every task and the controller scheduled again and again.
NextLive ==
    \/ \E v \in BOOLEAN : SetAutoReconnect(v)
    \/ Connect
    \/ LoopTop
    \/ Backoff
    \/ SleepDone
    \/ DialOk
    \/ DialFail
    \/ OnConnected
    \/ Spawn
    \/ WaitDone
    \/ Stop
    \/ ReadCancelled
    \/ ReadError
    \/ OnPong
    \/ PingCancelled
    \/ PingFail
    \/ Tick
    \/ WatchdogCheck

SpecLive ==
    /\ Init
    /\ [][NextLive]_vars
    /\ WF_vars(Tick)
    /\ WF_vars(WatchdogCheck)
    /\ WF_vars(WaitDone)
    /\ WF_vars(LoopTop)
    /\ WF_vars(Backoff)
    /\ WF_vars(SleepDone)

\* ConnectWithContext(ctx) with a context the caller may cancel, under the
\* same scheduling.
NextCancel ==
    \/ Connect
    \/ LoopTop
    \/ Backoff
    \/ SleepDone
    \/ DialOk
    \/ DialFail
    \/ OnConnected
    \/ Spawn
    \/ WaitDone
    \/ Cancel
    \/ ReadCancelled
    \/ ReadError
    \/ OnPong
    \/ PingCancelled
    \/ PingFail
    \/ Tick
    \/ WatchdogCheck

SpecCancel ==
    /\ Init
    /\ [][NextCancel]_vars
    /\ WF_vars(Tick)
    /\ WF_vars(WatchdogCheck)
    /\ WF_vars(WaitDone)
    /\ WF_vars(LoopTop)
    /\ WF_vars(Backoff)
    /\ WF_vars(SleepDone)
    /\ WF_vars(ReadCancelled)
    /\ WF_vars(PingCancelled)

\* ----------------------------------------------------------- claims
Last(q) == q[Len(q)]

HasEvent(log, e) == \E i \in 1..Len(log) : log[i].ev = e

\* C1: once Stop() has been called while ConnectWithContext runs, no new
\* socket is opened and no keepalive, read or watchdog task is started.
C1_NothingStartsAfterStop ==
    [][ stopCalled =>
          /\ nSock' = nSock
          /\ nPing' <= nPing
          /\ (readTask' = "run" => readTask = "run")
          /\ (watchdog' = "run" => watchdog = "run") ]_vars

\* C2: a failed createConnection invokes the error callback with the dial
\* error; with auto-reconnect on, the attempt counter grows by exactly one and
\* the controller is back at the top of the loop; with auto-reconnect off,
\* ConnectWithContext returns the error, and once returned it never dials.
C2_DialFailure ==
    [][ /\ (pc = "dial" /\ pc' # "dial" /\ nSock' = nSock) =>
            /\ Len(iterLog') = Len(iterLog) + 2
            /\ Last(iterLog') = Ev("onError", 0, <<>>)
            /\ IF autoReconnect
                 THEN /\ reconnectAttempt' = reconnectAttempt + 1
                      /\ pc' = "loop"
                      /\ retVal' = "none"
                 ELSE /\ reconnectAttempt' = reconnectAttempt
                      /\ pc' = "returned"
                      /\ retVal' = "error"
        /\ (pc = "returned" => pc' = "returned" /\ nSock' = nSock) ]_vars

\* C2 witness: the first dial failed, was counted, and the controller is
\* about to dial again.
C2_Witness ==
    /\ pc = "dial"
    /\ nSock = 0
    /\ reconnectAttempt = 1
    /\ HasEvent(iterLog, "reconnect")

\* C3: the first successful connection of a run invokes the user's connected
\* callback, with the new socket open; every later successful connection
\* replays the registry instead.
C3_FirstConnectionCallsBack ==
    pc = "spawn" =>
        IF nSock = 1
          THEN Last(iterLog) = Ev("connected", Conn, <<>>) /\ Conn \in openSocks
          ELSE Last(iterLog).ev = "replay"

\* How often x occurs in the sequence q.
Occurrences(q, x) == Cardinality({ i \in 1..Len(q) : q[i] = x })

\* How often the instrument t is listed in the request r.
ListedIn(r, t) ==
    LET RECURSIVE Sum(_)
        Sum(i) == IF i = 0 THEN 0
                  ELSE (IF r.TokenList[i].ExchangeType = t.ExchangeType
                          THEN Occurrences(r.TokenList[i].Tokens, t.Token) ELSE 0) + Sum(i - 1)
    IN  Sum(Len(r.TokenList))

\* The request r carries exactly the instruments the registry holds for its mode.
CarriesRegistry(r, map) ==
    /\ r.Mode \in DOMAIN map
    /\ \A t \in TokenInfos : ListedIn(r, t) = Occurrences(map[r.Mode], t)
    /\ \A i \in 1..Len(r.TokenList) : r.TokenList[i].Tokens # <<>>

\* The step in which onConnected() runs resubscribe().
ReplayStep == pc = "connected" /\ pc' = "spawn" /\ reconnectAttempt > 0

\* C4 as stated: every replay writes exactly one request per mode of the
\* registry, each carrying that mode's instruments with their multiplicity.
C4_EveryReplayComplete ==
    [][ ReplayStep =>
          /\ Len(replayOut') = Cardinality(DOMAIN subsMap)
          /\ \A m \in DOMAIN subsMap :
               Cardinality({ i \in 1..Len(replayOut') : replayOut'[i].Mode = m }) = 1
          /\ \A i \in 1..Len(replayOut') : CarriesRegistry(replayOut'[i], subsMap) ]_vars

\* C4 amended: a replay never writes two requests for one mode, and each
\* request it writes carries exactly the instruments accumulated under its
\* mode, with their multiplicity; a replay that returns no error has written
\* one request for every mode of the registry, and a replay that returns an
\* error has stopped at the failed write, leaving at least one mode out.
C4_ReplayRoundTrip ==
    [][ ReplayStep =>
          /\ \A i, j \in 1..Len(replayOut') :
               replayOut'[i].Mode = replayOut'[j].Mode => i = j
          /\ \A i \in 1..Len(replayOut') : CarriesRegistry(replayOut'[i], subsMap)
          /\ IF Last(iterLog').a = 0
               THEN { replayOut'[i].Mode : i \in 1..Len(replayOut') } = DOMAIN subsMap
               ELSE Len(replayOut') < Cardinality(DOMAIN subsMap) ]_vars

\* C4 witness: a successful replay of a registry of two modes, one of them
\* holding both instruments, which its single request carries in two groups.
C4_Witness ==
    /\ pc = "spawn"
    /\ Last(iterLog) = Ev("replay", 0, <<>>)
    /\ Len(replayOut) = 2
    /\ \E i \in 1..2 : replayOut[i].Mode = QUOTE /\ Len(replayOut[i].TokenList) = 2

\* The registry with toks appended to the end of mode's sequence.
Extended(map, mode, toks) ==
    [m \in (DOMAIN map) \cup {mode} |->
        IF m = mode THEN (IF m \in DOMAIN map THEN map[m] ELSE <<>>) \o toks ELSE map[m]]

C6_MaxDelayAboveFloor ==
    [][ setDelayCall' # setDelayCall =>
          LET c == setDelayCall'
          IN  IF Gt64(Millis(c.val), reconnectMinDelay)
                THEN c.err = "nil" /\ reconnectMaxDelay' = Millis(c.val)
                ELSE c.err = "error" /\ reconnectMaxDelay' = reconnectMaxDelay ]_vars

\* 2^n seconds in nanoseconds as a 16-byte number: no wrap-around for n <= MaxPow + 1.
ExactPow2Seconds(n) == MulBytes(Pow2Bytes(n, 16), Bytes(SecondNs, 16), 16)

\* min(maxDelay, 2^n seconds) over the integers, as an int64 image.
MinDelay(n, maxDelay) ==
    LET e == ExactPow2Seconds(n)
        wide == [i \in 1..16 |-> IF i <= 8 THEN maxDelay[i] ELSE 0]
    IN  IF IsNeg64(maxDelay) \/ UGt(e, wide, 16) THEN maxDelay ELSE [i \in 1..8 |-> e[i]]

\* The delay announced and slept for is min(maxDelay, 2^n seconds), never
\* above maxDelay and not below the delay of the attempt before.
DelayIsCappedPower ==
    pc = "sleep" =>
        /\ reconnectAttempt >= 1
        /\ nextDelay = MinDelay(reconnectAttempt, reconnectMaxDelay)
        /\ ~Gt64(nextDelay, reconnectMaxDelay)
        /\ reconnectAttempt >= 2 =>
             \A d \in NextDelays(reconnectAttempt - 1, reconnectMaxDelay) : ~Gt64(d, nextDelay)

\* An iteration that starts with attempt count 0 neither announces nor sleeps.
NoWaitAtZero == reconnectAttempt = 0 => pc \notin {"backoff", "sleep"}

\* C7: for every attempt count n >= 1 the backoff delay is
\* min(maxDelay, 2^n seconds), non-decreasing in n, at most maxDelay and
\* strictly positive, also where 2^n seconds overflows int64; at attempt
\* count 0 the controller does not wait.
C7_BackoffDelay ==
    /\ DelayIsCappedPower
    /\ NoWaitAtZero
    /\ pc = "sleep" => ~LeZero64(nextDelay)

\* C7 without its positivity clause: what the computation does guarantee.
C7_BackoffDelayShape == DelayIsCappedPower /\ NoWaitAtZero

\* The iteration's log behind the optional reconnectFailed entry.
AfterRetriesCheck(log) ==
    IF log # <<>> /\ log[1].ev = "reconnectFailed" THEN Tail(log) ELSE log

\* C8: an iteration that starts with attempt > 0 has, when it dials, invoked
\* the reconnect callback exactly once with (attempt, delay), then slept for
\* that delay, then closed the previous socket if there is one, in this
\* order; an iteration that starts with attempt 0 dials without any of them;
\* the reconnect callback never comes after the dial.
C8_BackoffBeforeDial ==
    /\ pc = "dial" =>
         LET L == AfterRetriesCheck(iterLog)
         IN  IF reconnectAttempt > 0
               THEN /\ nextDelay \in NextDelays(reconnectAttempt, reconnectMaxDelay)
                    /\ L = << Ev("reconnect", reconnectAttempt, nextDelay), Ev("sleep", 0, nextDelay) >>
                             \o (IF Conn # 0 THEN << Ev("closePrev", Conn, <<>>) >> ELSE <<>>)
                    /\ Conn \notin openSocks
               ELSE L = <<>>
    /\ \A i \in 1..Len(iterLog) :
         iterLog[i].ev = "reconnect" =>
            /\ i <= 2
            /\ \A j \in 1..(i - 1) : iterLog[j].ev = "reconnectFailed"

\* C8 witness: a reconnecting iteration about to dial, its previous socket closed.
C8_Witness ==
    /\ pc = "dial"
    /\ reconnectAttempt > 0
    /\ Conn # 0
    /\ Last(iterLog) = Ev("closePrev", Conn, <<>>)

\* C9: the reconnect-failed callback runs at the start of an iteration, before
\* every other step of it, if and only if the attempt counter exceeds
\* reconnectMaxRetries, and it is passed the attempt counter.
C9_ReconnectFailedIffOverCeiling ==
    /\ pc \in {"backoff", "sleep", "dial"} =>
         /\ HasEvent(iterLog, "reconnectFailed") <=> reconnectAttempt > reconnectMaxRetries
         /\ HasEvent(iterLog, "reconnectFailed") =>
              iterLog[1] = Ev("reconnectFailed", reconnectAttempt, <<>>)
    /\ \A i \in 1..Len(iterLog) : iterLog[i].ev = "reconnectFailed" => i = 1

\* C9 witness: the first iteration over the ceiling has run the callback.
C9_Witness ==
    /\ pc = "dial"
    /\ reconnectAttempt = reconnectMaxRetries + 1
    /\ HasEvent(iterLog, "reconnectFailed")

\* How ConnectWithContext may return: cancelled at the top of the loop, or a
\* failed dial with auto-reconnect off.
ReturnsOnlyOnStopOrDialError ==
    (pc # "returned" /\ pc' = "returned") =>
        \/ pc = "loop" /\ ctxDone /\ retVal' = "nil"
        \/ pc = "dial" /\ ~autoReconnect /\ retVal' = "error"

LayoutLen(f) ==
    IF f.len = 0 THEN 1
    ELSE IF f.data[1] = LTP THEN LenLTP
    ELSE IF f.data[1] = QUOTE THEN LenQuote
    ELSE IF f.data[1] = SNAPQUOTE THEN LenSnapquote
    ELSE 1

\* The callback the event carried by frame f belongs to.
CallbackOf(f) ==
    IF f.mType = "text" THEN "onText"
    ELSE IF f.len = 0 THEN "none"
    ELSE IF f.data[1] = LTP THEN "onLTP"
    ELSE IF f.data[1] = QUOTE THEN "onQuote"
    ELSE IF f.data[1] = SNAPQUOTE THEN "onSnapquote"
    ELSE "none"

\* msg is a frame that is as long as its mode's layout.
WholeFrame == msg.mType \in {"binary", "text"} /\ (msg.mType = "binary" => msg.len >= LayoutLen(msg))

\* C11: every callback is optional: when a whole frame arrives whose callback
\* was never set, the event is dropped and neither the read task nor the
\* program faults.
C11_UnsetCallbackDropsEvent ==
    (WholeFrame /\ CallbackOf(msg) # "none" /\ CallbackOf(msg) \notin callbacks)
        => (parsed.to = "dropped" /\ readTask # "panic" /\ pc # "crashed")

\* The same for the one frame callback that is called through a nil-testing
\* wrapper: an unset text callback drops the text frame.
C11_UnsetTextDropsEvent ==
    (msg.mType = "text" /\ "onText" \notin callbacks)
        => (parsed.to = "dropped" /\ readTask # "panic" /\ pc # "crashed")

\* The value the callback of frame msg received.
Delivered ==
    IF parsed.to = "onLTP" THEN parsed.ltp
    ELSE IF parsed.to = "onQuote" THEN parsed.quote
    ELSE IF parsed.to = "onSnapquote" THEN parsed.snap
    ELSE IF parsed.to = "onText" THEN parsed.text
    ELSE Unset

\* Frame msg went to callback cb and to no other, and the read task goes on.
RoutedTo(cb) ==
    /\ parsed.to = cb
    /\ Delivered # Unset
    /\ Cardinality({ x \in {parsed.ltp, parsed.quote, parsed.snap, parsed.text} : x # Unset }) = 1
    /\ readTask # "panic"

\* C12: every binary frame whose mode byte is 1, 2 or 3 reaches exactly the
\* best-price, quote or snapshot callback (when that callback is set) and no
\* other; every text frame reaches the text callback with its bytes
\* unchanged; a binary frame with another mode byte reaches no callback and
\* the read task goes on.
C12_FrameRouting ==
    /\ (msg.mType = "binary" /\ msg.len > 0 /\ CallbackOf(msg) \in callbacks)
          => RoutedTo(CallbackOf(msg))
    /\ (msg.mType = "text" /\ "onText" \in callbacks)
          => (RoutedTo("onText") /\ parsed.text = [bytes |-> SubSeq(msg.data, 1, msg.len)])
    /\ (msg.mType = "binary" /\ msg.len > 0 /\ CallbackOf(msg) = "none")
          => (parsed.to = "log" /\ Delivered = Unset /\ readTask # "panic")

\* The routing of C12 for the frames that are as long as their layout.
C12_WholeFrameRouting == WholeFrame => C12_FrameRouting

\* C17: a binary frame shorter than the layout of its mode (an empty frame
\* included) is answered with a truncation error and crashes neither the
\* parser nor the read task.
C17_ShortFrameIsAnError ==
    (msg.mType = "binary" /\ msg.len < LayoutLen(msg))
        => (parsed.to = "truncated" /\ readTask # "panic" /\ pc # "crashed")

\* The 25-byte token field of buffer m.
TokenField(m) == SubSeq(m.data, 3, 27)

\* The bytes of fld before its first NUL, all of fld when it has none.
UpToNul(fld) ==
    LET nuls == { i \in 1..Len(fld) : fld[i] = 0 }
    IN  IF nuls = {} THEN fld
        ELSE SubSeq(fld, 1, (CHOOSE i \in nuls : \A j \in nuls : i <= j) - 1)

\* The unsigned number whose little-endian bytes are bs, as 16-bit limbs,
\* most significant first.
ValueLE(bs) == [k \in 1..4 |-> bs[9 - 2 * k] + 256 * bs[10 - 2 * k]]

\* ParseLTP was applied to the buffer and returned.
LTPParsed == parsed.to = "parser" /\ parsed.ltp # Unset /\ parsed.ltp # Panic

\* C16: for every 51-byte buffer with mode byte 1, ParseLTP returns the
\* exchange id of offset 1, the token of offsets 2-26, and the little-endian
\* numbers of offsets 27-34, 35-42 and 43-50 as sequence number, feed
\* timestamp and last traded price.
C16_ParseLTPFields ==
    (LTPParsed /\ msg.len = LenLTP /\ msg.data[1] = LTP)
        => /\ parsed.ltp.TokenInfo.ExchangeType = msg.data[2]
           /\ parsed.ltp.TokenInfo.Token = UpToNul(TokenField(msg))
           /\ parsed.ltp.SequenceNumber = ValueLE(SubSeq(msg.data, 28, 35))
           /\ parsed.ltp.ExchangeFeedTimeEpochMillis = ValueLE(SubSeq(msg.data, 36, 43))
           /\ parsed.ltp.LastTradedPrice = ValueLE(SubSeq(msg.data, 44, 51))

\* The fields of C16 for the buffers whose token field holds a NUL.
C16_TerminatedTokenFields ==
    (\E i \in 1..25 : TokenField(msg)[i] = 0) => C16_ParseLTPFields

\* C18: the decoded token is the bytes of the token field before its first
\* NUL: all 25 bytes when it has none, empty when its first byte is NUL.
C18_TokenUpToNul ==
    LTPParsed => parsed.ltp.TokenInfo.Token = UpToNul(TokenField(msg))

\* The token of C18 for the fields that hold a NUL.
C18_TerminatedToken ==
    (\E i \in 1..25 : TokenField(msg)[i] = 0) => C18_TokenUpToNul

\* The fields of model.LTPInfo and of model.Quote.
LTPFields == {"TokenInfo", "SequenceNumber", "ExchangeFeedTimeEpochMillis", "LastTradedPrice"}

QuoteFields ==
    LTPFields \cup {"LastTradedQty", "AvgTradedPrice", "VolumeTradedToday", "TotalBuyQty",
                    "TotalSellQty", "OpenPrice", "HighPrice", "LowPrice", "ClosePrice"}

\* C19: on a snapshot-length buffer the quote parser returns the snapshot
\* parser's result restricted to the quote fields, and the best-price parser
\* returns the quote parser's result restricted to the best-price fields.
C19_ParsersLayered ==
    (msg.len = LenSnapquote /\ parsed.ltp # Unset /\ parsed.quote # Unset /\ parsed.snap # Unset)
        => /\ parsed.ltp # Panic /\ parsed.quote # Panic /\ parsed.snap # Panic
           /\ DOMAIN parsed.quote = QuoteFields
           /\ DOMAIN parsed.ltp = LTPFields
           /\ parsed.quote = [f \in QuoteFields |-> parsed.snap[f]]
           /\ parsed.ltp = [f \in LTPFields |-> parsed.quote[f]]

C19_Witness ==
    /\ msg.len = LenSnapquote
    /\ parsed.ltp \notin {Unset, Panic}
    /\ parsed.quote \notin {Unset, Panic}
    /\ parsed.snap \notin {Unset, Panic}

\* The depth entry number j (1..10) of buffer m, read field by field.
DepthEntry(m, j) ==
    LET o == 147 + 20 * (j - 1)
    IN  [Flag |-> m.data[o + 1] + 256 * m.data[o + 2],
         Quantity |-> ValueLE(SubSeq(m.data, o + 3, o + 10)),
         Price |-> ValueLE(SubSeq(m.data, o + 11, o + 18)),
         NumberOfOrders |-> m.data[o + 19] + 256 * m.data[o + 20]]

DepthEntries(m) == [j \in 1..10 |-> DepthEntry(m, j)]

\* ParseSnapquote was applied to the buffer and returned.
SnapParsed == parsed.to = "parser" /\ parsed.snap # Unset /\ parsed.snap # Panic

\* C20: the snapshot parser puts the depth entries with flag 1 in the buy
\* list and all others in the sell list, each in the order of the frame, so
\* the two lengths sum to 10; five flags 1 followed by five flags 0 give five
\* buys and five sells.
C20_DepthPartition ==
    SnapParsed
        => /\ parsed.snap.BestFiveBuy = SelectSeq(DepthEntries(msg), LAMBDA e : e.Flag = 1)
           /\ parsed.snap.BestFiveSell = SelectSeq(DepthEntries(msg), LAMBDA e : e.Flag # 1)
           /\ Len(parsed.snap.BestFiveBuy) + Len(parsed.snap.BestFiveSell) = 10
           /\ ([j \in 1..10 |-> DepthEntry(msg, j).Flag] = DefaultFlags
                 => Len(parsed.snap.BestFiveBuy) = 5 /\ Len(parsed.snap.BestFiveSell) = 5)

\* A snapshot whose buys and sells interleave and whose sell flags include
\* values other than 0 was parsed.
C20_Witness ==
    /\ SnapParsed
    /\ \E i, j, k \in 1..10 :
         /\ i < j /\ j < k
         /\ DepthEntry(msg, i).Flag # 1
         /\ DepthEntry(msg, j).Flag = 1
         /\ DepthEntry(msg, k).Flag = 257

\* This step writes a subscription request to the socket: a Subscribe call,
\* or a replay that sends at least one request.
SubscriptionWrite ==
    \/ subscribeCall' # subscribeCall
    \/ subsMap' # subsMap
    \/ (ReplayStep /\ subsMap # <<>> /\ Conn \in openSocks)

\* C13: at most one writer writes to the socket at a time: no subscription
\* write (Subscribe by any task, or the replay) happens while a keepalive
\* ping write is in progress.
C13_WritesNeverOverlap == [][pingWriting > 0 => ~SubscriptionWrite]_vars

\* The session was torn down by the watchdog while its read task was still
\* reading: the liveness failure of an otherwise healthy session.
IdleBreachOnHealthySession ==
    watchdog = "done" /\ readTask = "run" /\ ~ctxDone /\ ~HasEvent(iterLog, "onError")

\* This step calls onError(err).
ErrorCallbackStep == Len(iterLog') = Len(iterLog) + 1 /\ Last(iterLog').ev = "onError"

\* C15: a liveness failure forces a reconnect without an error callback:
\* once the watchdog has torn down a healthy session, the attempt is counted
\* and the session ends without a call of onError.
C15_IdleBreachWithoutErrorCallback ==
    [][IdleBreachOnHealthySession => (reconnectAttempt > 0 /\ ~ErrorCallbackStep)]_vars

\* The part of C15 the watchdog keeps: the teardown counts an attempt, so
\* the next iteration backs off and dials again.
C15_IdleBreachForcesReconnect ==
    (watchdog = "done" /\ ~ctxDone) => (reconnectAttempt > 0 /\ subDone /\ Conn \notin openSocks)

\* The read task of the running session has exited with a read error, the
\* controller has not been stopped, and the attempt counter has room for the
\* watchdog's count.
ReadErrorPending ==
    /\ pc = "wait"
    /\ readTask = "done"
    /\ Conn # 0
    /\ \E i \in 1..Len(iterLog) : iterLog[i] = Ev("onError", Conn, <<>>)
    /\ ~ctxDone
    /\ watchdog = "run" => reconnectAttempt < MaxAttempt

\* The controller has announced a reconnect, slept the backoff delay and
\* stands at the call of createConnection.
BackedOffAndDialling ==
    pc = "dial" /\ HasEvent(iterLog, "reconnect") /\ HasEvent(iterLog, "sleep")

\* This step is the read task returning because ReadMessage failed.
ReadErrorExit == readTask = "run" /\ readTask' = "done" /\ ~subDone

\* C14: a read error is reported through the error callback, and it always
\* leads to a reconnect cycle: unless the controller is stopped, it
\* eventually backs off and dials again, whatever the auto-reconnect flag.
C14_ReadErrorLeadsToReconnect ==
    /\ [][ReadErrorExit => iterLog' = Append(iterLog, Ev("onError", Conn, <<>>))]_vars
    /\ \A flag \in BOOLEAN :
         (ReadErrorPending /\ autoReconnect = flag) ~> (BackedOffAndDialling \/ ctxDone)

\* A read error is pending with auto-reconnect switched off, and the
\* watchdog has already torn the session down.
C14_Witness == ReadErrorPending /\ ~autoReconnect /\ watchdog = "done"

\* createSubsRequest was called and returned the request subsRequest.req.
RequestBuilt == subsRequest.req # Unset

\* The tokens of the instruments of toks whose exchange is e, one per
\* instrument, in the order of toks.
RECURSIVE TokensOnExchange(_, _)
TokensOnExchange(toks, e) ==
    IF toks = <<>> THEN <<>>
    ELSE (IF Head(toks).ExchangeType = e THEN << Head(toks).Token >> ELSE <<>>)
            \o TokensOnExchange(Tail(toks), e)

\* C21: the request built for (mode, instruments) has action code 1 and the
\* given mode, holds exactly one token group per distinct exchange id of the
\* instruments, and each group lists the tokens of its exchange in input
\* order and with input multiplicity, so that every instrument is in
\* exactly one group.
C21_RequestGroupsByExchange ==
    RequestBuilt =>
        LET r == subsRequest.req
            toks == subsRequest.toks
            n == Len(r.TokenList)
        IN  /\ r.Action = 1
            /\ r.Mode = subsRequest.mode
            /\ \A i, j \in 1..n : i # j => r.TokenList[i].ExchangeType # r.TokenList[j].ExchangeType
            /\ { r.TokenList[i].ExchangeType : i \in 1..n } = { toks[k].ExchangeType : k \in 1..Len(toks) }
            /\ \A i \in 1..n :
                 r.TokenList[i].Tokens = TokensOnExchange(toks, r.TokenList[i].ExchangeType)

\* A request was built for a slice that interleaves two exchanges and
\* repeats an instrument.
C21_Witness ==
    /\ RequestBuilt
    /\ Len(subsRequest.req.TokenList) = 2
    /\ \E i, j, k \in 1..Len(subsRequest.toks) :
         /\ i < j /\ j < k
         /\ subsRequest.toks[i] = subsRequest.toks[k]
         /\ subsRequest.toks[j].ExchangeType # subsRequest.toks[i].ExchangeType

\* The controller is blocked at wg.Wait() and at least one of the session's
\* three tasks has exited.
SomeTaskExited == pc = "wait" /\ (readTask = "done" \/ watchdog = "done" \/ nPing = 0)

\* C22: once the session's tasks run, the controller resumes as soon as any
\* one of them has exited (the read task alone, or the keepalive task alone,
\* is enough), and no task of the session is left when the next iteration
\* starts.
C22_AnyTaskExitResumes ==
    /\ SomeTaskExited => ENABLED WaitDone
    /\ (pc = "loop" /\ nSock > 0) => (nPing = 0 /\ readTask = "none" /\ watchdog = "none")

\* What the code does instead: wg.Wait() returns only when the read task and
\* the watchdog have both exited, whatever the keepalive task did.
C22_WaitsForReadAndWatchdog ==
    [][(pc = "wait" /\ pc' = "loop") => (readTask = "done" /\ watchdog = "done")]_vars

\* The resubscribe() of this iteration returned an error.
ReplayFailed == iterLog # <<>> /\ Last(iterLog) = Ev("replay", 1, <<>>)

\* C23: a failed registry replay leaves the attempt counter unchanged and
\* aborts the iteration: no keepalive, read or watchdog task is started on
\* that connection before the controller is back at the top of the loop.
C23_FailedReplayAbortsIteration ==
    [][ /\ (ReplayStep /\ Last(iterLog') = Ev("replay", 1, <<>>))
            => reconnectAttempt' = reconnectAttempt
        /\ (pc = "spawn" /\ ReplayFailed)
            => (nPing' = nPing /\ readTask' = readTask /\ watchdog' = watchdog /\ pc' # "wait") ]_vars

\* The part of C23 the code keeps: the failed replay leaves the counter as
\* it was.
C23_FailedReplayKeepsAttempt ==
    [][(ReplayStep /\ Last(iterLog') = Ev("replay", 1, <<>>))
          => reconnectAttempt' = reconnectAttempt]_vars

\* This step is a registry replay after a reconnect that returned nil.
SuccessfulReplayStep == ReplayStep /\ Last(iterLog') = Ev("replay", 0, <<>>)

WatchdogCheckStep ==
    watchdog = "run" /\ wdTimer = 0 /\ (watchdog' = "done" \/ wdTimer' = CheckTicks)

\* This step is the watchdog tearing the session down.
TeardownStep == watchdog = "run" /\ watchdog' = "done"

\* C25: the watchdog tears a session down only on an idle breach and once
\* per session: it checks nothing before twice the keepalive interval has
\* passed since the session started; a check that finds the last pong older
\* than the idle threshold closes the session and adds exactly one to the
\* attempt counter; a check that finds it within the threshold does
\* neither; after the teardown the watchdog does nothing more.
C25_WatchdogTeardown ==
    [][ /\ WatchdogCheckStep => sessAge >= GraceTicks
        /\ TeardownStep => (WatchdogCheckStep /\ sincePong > IdleTicks)
        /\ (WatchdogCheckStep /\ sincePong > IdleTicks)
             => /\ TeardownStep
                /\ reconnectAttempt' = reconnectAttempt + 1
                /\ subDone'
                /\ Conn \notin openSocks'
        /\ (WatchdogCheckStep /\ sincePong <= IdleTicks)
             => /\ watchdog' = "run"
                /\ reconnectAttempt' = reconnectAttempt
                /\ subDone' = subDone
                /\ openSocks' = openSocks
        /\ watchdog = "done"
             => (watchdog' \in {"done", "none"} /\ reconnectAttempt' = reconnectAttempt) ]_vars

\* The watchdog tore a session down at a check later than twice the
\* keepalive interval that found the last pong older than the threshold.
C25_Witness ==
    /\ watchdog = "done"
    /\ sessAge >= GraceTicks + CheckTicks
    /\ sincePong > IdleTicks
    /\ reconnectAttempt >= 1

\* Sequence b starts with sequence a.
IsPrefix(a, b) == Len(a) <= Len(b) /\ SubSeq(b, 1, Len(a)) = a

\* This step is a Subscribe call that returned nil: nothing of the
\* controller, of the tasks or of the socket moves in it.
SubscribeReturnedNil ==
    /\ subscribeCall'.err = "nil"
    /\ UNCHANGED << pc, iterLog, reconnectAttempt, sockVars, ctxDone, stopCalled, subDone,
                    replayOut, taskVars >>

\* C26: the registry is append-only: in every step each mode keeps its
\* sequence as a prefix of the new one (nothing is removed, reordered or
\* deduplicated), and the only step that changes the registry is a
\* successful Subscribe, which adds as many entries as it was given; a
\* reconnect, a replay, a watchdog breach and Stop leave it unchanged.
C26_RegistryAppendOnly ==
    [][ /\ \A m \in DOMAIN subsMap : m \in DOMAIN subsMap' /\ IsPrefix(subsMap[m], subsMap'[m])
        /\ subsMap' # subsMap
             => /\ SubscribeReturnedNil
                /\ RegLen(subsMap') = RegLen(subsMap) + Len(subscribeCall'.toks) ]_vars

\* A registry filled by Subscribe calls has lived through a watchdog
\* breach, a reconnect with its replay, and a Stop.
C26_Witness ==
    /\ RegLen(subsMap) = MaxRegLen
    /\ Cardinality(DOMAIN subsMap) = 2
    /\ nSock >= 2
    /\ stopCalled
    /\ HasEvent(iterLog, "replay")

\* The caller's context is cancelled while a session is live, and the
\* attempt counter has room for the watchdog's count.
CancelledWhileLive ==
    /\ ctxDone
    /\ pc = "wait"
    /\ readTask = "run"
    /\ watchdog = "run"
    /\ reconnectAttempt < MaxAttempt

\* ConnectWithContext has returned nil with the session's tasks and the
\* socket closed.
ReturnedNilAllClosed ==
    /\ pc = "returned"
    /\ retVal = "nil"
    /\ readTask \in {"none", "done"}
    /\ watchdog \in {"none", "done"}
    /\ Conn \notin openSocks

\* C27: when the caller cancels the context of ConnectWithContext while a
\* session is live, the session's tasks and the socket are eventually
\* closed and ConnectWithContext eventually returns nil, even when the peer
\* keeps answering pings.
C27_CancelEndsLiveSession == CancelledWhileLive ~> ReturnedNilAllClosed

\* This step is createConnection opening a new socket.
DialStep == nSock' = nSock + 1

\* C28: at most one socket is open at any time: whenever the controller
\* dials a new connection every socket it opened earlier is closed, across
\* dial failures, watchdog breaches, read errors and Stop calls.
C28_AtMostOneSocketOpen ==
    /\ [](Cardinality(openSocks) <= 1 /\ openSocks \subseteq {Conn})
    /\ [][DialStep => openSocks = {}]_vars

\* A third socket is open after two earlier sessions were lost and closed.
C28_Witness == nSock >= 3 /\ openSocks = {Conn} /\ Conn = nSock

\* This step is ConnectWithContext returning a non-nil error.
ReturnsError == pc # "returned" /\ pc' = "returned" /\ retVal' # "nil"

\* This step is createConnection failing with auto-reconnect switched off.
DialFailsWithoutAuto ==
    /\ pc = "dial"
    /\ ~autoReconnect
    /\ iterLog' = iterLog \o << Ev("dialFailed", 0, <<>>), Ev("onError", 0, <<>>) >>

\* C29: the auto-reconnect flag matters only when a dial fails:
\* ConnectWithContext returns a non-nil error only in the step of a failed
\* dial with the flag off; the loss of an established session counts an
\* attempt, and from the top of the loop the controller then backs off,
\* sleeps and dials again whatever the flag, unless it was stopped.
C29_FlagOnlyAtDialFailure ==
    [][ /\ ReturnsError => DialFailsWithoutAuto
        /\ (pc = "wait" /\ pc' = "loop") => reconnectAttempt' > 0
        /\ (pc = "loop" /\ pc' # "loop" /\ ~ctxDone /\ reconnectAttempt > 0) => pc' = "backoff"
        /\ pc = "backoff" => pc' \in {"backoff", "sleep"}
        /\ pc = "sleep" => pc' \in {"sleep", "dial"} ]_vars

\* With auto-reconnect off, a session was lost and the controller has
\* backed off and stands at the next dial.
C29_Witness ==
    /\ ~autoReconnect
    /\ pc = "dial"
    /\ nSock >= 1
    /\ HasEvent(iterLog, "reconnect")
    /\ HasEvent(iterLog, "sleep")
    /\ ~ctxDone

====
